---------------------------- MODULE Spec2Model ----------------------------
(***************************************************************************)
(* Model of prospect/plotting/sfh.py: the star-formation-history helpers   *)
(* params_to_sfh, sfh_quantiles, parametric_sfr, parametric_cmf,           *)
(* ratios_to_sfrs, nonpar_recent_sfr, nonpar_mwa and sfh_to_cmf.           *)
(*                                                                         *)
(* Every function of the module is pure, so the state machine is a caller  *)
(* that draws an input, runs one function to completion and records what   *)
(* came back: the returned value or the exception that ended the call.     *)
(*                                                                         *)
(* Real numbers are exact decimal rationals n/d * 10^e in canonical form   *)
(* (d coprime to 10 and to n, n not a multiple of 10), so that 10**x,      *)
(* /1e9 and *1e9 are computed as the code computes them without leaving    *)
(* the range of the integers.  d = 0 marks the IEEE results of a division  *)
(* by zero: NaN (0/0) and Inf (x/0).                                       *)
(***************************************************************************)
EXTENDS Integers, Sequences, FiniteSets

VARIABLES pc, op, args, ret

vars == <<pc, op, args, ret>>

---------------------------------------------------------------------------
(* Bounds of the model.                                                    *)

MaxLogAge == 3      \* bin edges are log10(years) drawn from 0..MaxLogAge
MaxMwaLogAge == 2   \* the same for nonpar_mwa, which squares the linear ages
MaxBins == 2        \* bins per bin set in the operations on ensembles
MaxScalarBins == 3  \* bins per bin set in the one-member ratios_to_sfrs
MaxLogMass == 3     \* logmass of the one-member ratios_to_sfrs is in 0..MaxLogMass
MaxSamples == 2     \* members per ensemble
MaxTimes == 2       \* points of a target time grid

---------------------------------------------------------------------------
(* Exact arithmetic standing for numpy's float arithmetic.                 *)

Abs(x) == IF x < 0 THEN -x ELSE x

Min(a, b) == IF a <= b THEN a ELSE b

RECURSIVE GCD(_, _)
GCD(a, b) == IF b = 0 THEN a ELSE GCD(b, a % b)

RECURSIVE IntPow10(_)
IntPow10(k) == IF k <= 0 THEN 1 ELSE 10 * IntPow10(k - 1)

\* Move the factors 2 and 5 of the denominator into the decimal exponent.
RECURSIVE ClearDen(_, _, _)
ClearDen(n, d, e) ==
    IF d % 2 = 0 THEN ClearDen(n * 5, d \div 2, e - 1)
    ELSE IF d % 5 = 0 THEN ClearDen(n * 2, d \div 5, e - 1)
    ELSE <<n, d, e>>

\* Move the factors 10 of the numerator into the decimal exponent.
RECURSIVE StripNum(_, _, _)
StripNum(n, d, e) ==
    IF n % 10 = 0 THEN StripNum(n \div 10, d, e + 1)
    ELSE [n |-> n, d |-> d, e |-> e]

Zero == [n |-> 0, d |-> 1, e |-> 0]

NaN == [n |-> 0, d |-> 0, e |-> 0]

Inf == [n |-> 1, d |-> 0, e |-> 0]

\* The canonical form of n/d * 10^e, d > 0.
Mk(n, d, e) ==
    IF n = 0 THEN Zero
    ELSE LET g == GCD(Abs(n), d)
             c == ClearDen(n \div g, d \div g, e)
         IN  StripNum(c[1], c[2], c[3])

FromInt(i) == Mk(i, 1, 0)

One == FromInt(1)

Add(a, b) ==
    LET m == Min(a.e, b.e)
        l == (a.d \div GCD(a.d, b.d)) * b.d
    IN  Mk(a.n * IntPow10(a.e - m) * (l \div a.d)
             + b.n * IntPow10(b.e - m) * (l \div b.d), l, m)

Neg(a) == [a EXCEPT !.n = -a.n]

Sub(a, b) == Add(a, Neg(b))

Mul(a, b) ==
    LET g1 == GCD(Abs(a.n), b.d)
        g2 == GCD(Abs(b.n), a.d)
    IN  IF a.n = 0 \/ b.n = 0 THEN Zero
        ELSE Mk((a.n \div g1) * (b.n \div g2),
                (a.d \div g2) * (b.d \div g1), a.e + b.e)

\* IEEE division: x/0 is Inf, 0/0 is NaN, and numpy only warns.
Div(a, b) ==
    IF b.n = 0 THEN (IF a.n = 0 THEN NaN ELSE Inf)
    ELSE LET s == IF b.n < 0 THEN -1 ELSE 1
         IN  Mul(a, [n |-> s * b.d, d |-> Abs(b.n), e |-> -b.e])

Le(a, b) == Sub(b, a).n >= 0

Lt(a, b) == Sub(b, a).n > 0

\* 10**x for an integer x.
Pow10(x) == Mk(1, 1, x)

\* np.clip(x, lo, hi)
Clip(x, lo, hi) == IF Lt(x, lo) THEN lo ELSE IF Lt(hi, x) THEN hi ELSE x

RECURSIVE SumSeq(_)
SumSeq(s) == IF s = <<>> THEN Zero ELSE Add(Head(s), SumSeq(Tail(s)))

\* s[::-1]
Reverse(s) == [i \in 1..Len(s) |-> s[Len(s) + 1 - i]]

\* np.cumsum
CumSum(s) == [i \in 1..Len(s) |-> SumSeq(SubSeq(s, 1, i))]

---------------------------------------------------------------------------
(* Arrays.  A numpy array of at most two axes is its shape and its rows;   *)
(* an array of one axis holds its values as its single row.                *)

Arr1(row) == [type |-> "ndarray", shape |-> <<Len(row)>>, rows |-> <<row>>]

Arr2(rows, ncol) ==
    [type |-> "ndarray", shape |-> <<Len(rows), ncol>>, rows |-> rows]

\* An optional argument: None, or a value.
None == [given |-> FALSE]

Some(v) == [given |-> TRUE, value |-> v]

\* np.atleast_2d
AtLeast2d(a) ==
    IF Len(a.shape) = 1 THEN [a EXCEPT !.shape = <<1, a.shape[1]>>] ELSE a

\* np.squeeze: the axes of length one are dropped, the values stay.
Squeeze(a) == [a EXCEPT !.shape = SelectSeq(a.shape, LAMBDA x : x # 1)]

\* a.T of an array of two axes
Transpose(a) ==
    [type |-> "ndarray", shape |-> <<a.shape[2], a.shape[1]>>,
     rows |-> [j \in 1..a.shape[2] |-> [i \in 1..a.shape[1] |-> a.rows[i][j]]]]

---------------------------------------------------------------------------
(* Inputs.  An age-bin set is a sequence of bins <<t_low, t_high>> in      *)
(* log10(years), listed in increasing age and not overlapping.             *)

LogAges == 0..MaxLogAge

Bin(maxAge) == {b \in (0..maxAge) \X (0..maxAge) : b[1] < b[2]}

AgeBins(maxAge, maxN) ==
    UNION {{ab \in [1..n -> Bin(maxAge)] :
              \A i \in 1..(n - 1) : ab[i][2] <= ab[i + 1][1]}
           : n \in 1..maxN}

Contiguous(ab) == \A i \in 1..(Len(ab) - 1) : ab[i][2] = ab[i + 1][1]

LogMasses == 0..MaxLogMass

\* The values of logmass and of a log-SFR-ratio of a member of an ensemble.
EnsembleLogMasses == {0, 1, 2}

RecentLogMasses == {0, 1}

RecentLogSfrRatios == {0, 1}

\* Ratios of 0 and more: the SFR does not rise with age, which keeps the
\* masses of the bins within a few orders of magnitude of each other.
LogSfrRatios == {0, 1, 2}

SfrValues == {0, 1, 2}

\* The ensembles of at least lo members over a set of per-member values.
Ensembles(S, lo) == UNION {[1..m -> S] : m \in lo..MaxSamples}

\* The per-member parameters of the non-parametric model over nbin bins.
Members(nbin, logmasses, ratios) ==
    [logmass : logmasses, logsfr_ratios : [1..(nbin - 1) -> ratios]]

\* Time grids in Gyr: increasing, of 1..MaxTimes points.
TimeValues == {0, 1, 2}

TimeGrids ==
    UNION {{[i \in 1..n |-> FromInt(t[i])] :
              t \in {u \in [1..n -> TimeValues] : \A i \in 1..(n - 1) : u[i] < u[i + 1]}}
           : n \in 1..MaxTimes}

ItemKinds == {"scalar", "array"}

\* The parameter sets of the parametric model: n samples of tau, tage, mass.
ParametricParams == [kind : {"parametric"}, n : 0..MaxSamples, item : ItemKinds]

\* The parameter sets of the non-parametric model over nbin bins.
NonparametricParams(nbin) ==
    {[kind |-> "nonparametric",
      logmass |-> [m \in 1..Len(ens) |-> ens[m].logmass],
      logsfr_ratios |-> [m \in 1..Len(ens) |-> ens[m].logsfr_ratios]] :
        ens \in Ensembles(Members(nbin, RecentLogMasses, RecentLogSfrRatios), 0)}

\* Target grids of sfh_quantiles in Gyr: 5 * 10^(x - 10) is below every bin
\* edge for x = 0, above every bin edge for x = MaxLogAge + 1, and between
\* the edges 10^(x - 10) and 10^(x - 9) otherwise.
GridPoints == {Mk(5, 1, x - 10) : x \in 0..(MaxLogAge + 1)}

RECURSIVE SetToSeq(_)
SetToSeq(S) ==
    IF S = {} THEN <<>>
    ELSE LET x == CHOOSE y \in S : \A z \in S : Le(y, z)
         IN  <<x>> \o SetToSeq(S \ {x})

TargetGrids ==
    {SetToSeq(S) : S \in {T \in SUBSET GridPoints : Cardinality(T) \in 1..MaxTimes}}

QuantileSfrValues == {1, 2}

\* The members of an ensemble of sfh_quantiles: each its own bins in Gyr,
\* 10^(agebins - 9), and its SFRs.
QuantileMembers(nbin) ==
    {[bins |-> [i \in 1..nbin |-> <<Pow10(ab[i][1] - 9), Pow10(ab[i][2] - 9)>>],
      sfrs |-> [i \in 1..nbin |-> FromInt(v[i])]] :
        ab \in {b \in AgeBins(MaxLogAge, nbin) : Len(b) = nbin},
        v \in [1..nbin -> QuantileSfrValues]}

\* No weights, or one weight per member: 1, 2, ...
WeightChoices(nsamples) == {None, Some([m \in 1..nsamples |-> m])}

PercentileChoices == {<<50>>, <<16, 50, 84>>}

\* sfr_period in Gyr: the bin edges a bin set can have, and the default 0.1.
SfrPeriods == {Pow10(x - 9) : x \in LogAges} \cup {Pow10(-1)}

---------------------------------------------------------------------------
(* The functions of sfh.py.                                                *)

\* dt = (10**agebins[:, 1] - 10**agebins[:, 0])
BinWidths(agebins) ==
    [i \in 1..Len(agebins) |-> Sub(Pow10(agebins[i][2]), Pow10(agebins[i][1]))]

RECURSIVE SumInts(_, _)
SumInts(s, k) == IF k = 0 THEN 0 ELSE s[k] + SumInts(s, k - 1)

\* prospect.models.transforms.logsfr_ratios_to_masses: the SFR of bin i is
\* 10^ratio[i] times the SFR of bin i+1, the mass of a bin is its SFR times
\* its linear width, and the masses sum to 10^logmass.
logsfr_ratios_to_masses(logmass, logsfr_ratios, agebins) ==
    LET dt == BinWidths(agebins)
        coeffs == [i \in 1..Len(agebins) |->
                     Mul(dt[i], Pow10(-SumInts(logsfr_ratios, i - 1)))]
        total == SumSeq(coeffs)
    IN  [i \in 1..Len(agebins) |-> Div(Mul(Pow10(logmass), coeffs[i]), total)]

\* ratios_to_sfrs dividing by the width of the bin in log10(years).
ratios_to_sfrs_logwidth(logmass, logsfr_ratios, agebins) ==
    LET masses == logsfr_ratios_to_masses(logmass, logsfr_ratios, agebins)
    IN  [i \in 1..Len(agebins) |->
           Div(masses[i], FromInt(agebins[i][2] - agebins[i][1]))]

ratios_to_sfrs(logmass, logsfr_ratios, agebins) ==
    LET masses == logsfr_ratios_to_masses(logmass, logsfr_ratios, agebins)
        dt == BinWidths(agebins)
    IN  [i \in 1..Len(agebins) |-> Div(masses[i], dt[i])]

\* ages = 10**(agebins - 9); ages[:, 0].tolist() + [ages[-1, 1]]
AgeGrid(agebins) ==
    [i \in 1..(Len(agebins) + 1) |->
        IF i <= Len(agebins) THEN Pow10(agebins[i][1] - 9)
        ELSE Pow10(agebins[Len(agebins)][2] - 9)]

\* CmfRow without the final reversal.
CmfRowNotReversedBack(sfr, dt) ==
    LET masses == Reverse([i \in 1..Len(sfr) |-> Mul(sfr[i], dt[i])])
        cum == CumSum(masses)
        cmf == [i \in 1..Len(cum) |-> Div(cum[i], cum[Len(cum)])]
    IN  <<Zero>> \o cmf

\* One row of sfh_to_cmf: masses reversed, summed up, divided by the total,
\* a zero put in front, and the whole reversed again.
CmfRow(sfr, dt) ==
    LET masses == Reverse([i \in 1..Len(sfr) |-> Mul(sfr[i], dt[i])])
        cum == CumSum(masses)
        cmf == [i \in 1..Len(cum) |-> Div(cum[i], cum[Len(cum)])]
    IN  Reverse(<<Zero>> \o cmf)

\* An ensemble without members reaches sfh_to_cmf as an array of shape (0,):
\* sfrs * dt does not broadcast against two or more bins, and against one
\* bin cmfs[..., -1] indexes an axis of length 0.
sfh_to_cmf(sfrs, agebins) ==
    LET s2 == AtLeast2d(sfrs)
        dt == BinWidths(agebins)
        cmfs == Arr2([m \in 1..s2.shape[1] |-> CmfRow(s2.rows[m], dt)],
                     s2.shape[2] + 1)
    IN  IF s2.shape[2] = Len(agebins)
        THEN [status |-> "ok", ages |-> AgeGrid(agebins), cmfs |-> Squeeze(cmfs)]
        ELSE IF Len(agebins) = 1 THEN [status |-> "IndexError"]
        ELSE [status |-> "ValueError"]

\* parametric_sfr.  tau, tage and mass are numpy scalars ("scalar", the
\* items of arrays of shape (n,)) or arrays of shape (1,) ("array", the items
\* of arrays of shape (n, 1)).  Without times psi has the shape of tage, and
\* psi[tt < 0] = 0 is an item assignment that a numpy scalar does not
\* support.  The SFR values, which go through exp and the gamma functions,
\* are left out: only the shape of the result is kept.
parametric_sfr(item, times) ==
    IF ~times.given
    THEN IF item = "scalar" THEN [status |-> "TypeError"]
         ELSE [status |-> "ok", shape |-> <<1>>]
    ELSE [status |-> "ok", shape |-> <<Len(times.value)>>]

\* parametric_cmf: raise(NotImplementedError) is its first statement.
parametric_cmf(item, times) == [status |-> "NotImplementedError"]

\* time.max()
MaxOf(t) == CHOOSE x \in {t[i] : i \in 1..Len(t)} : \A i \in 1..Len(t) : Le(t[i], x)

\* params_to_sfh.  params holds the keys of one model: tau, tage and mass
\* ("parametric": n samples, each item a scalar or an array of shape (1,)),
\* or logmass and logsfr_ratios ("nonparametric").  path is the branch that
\* ran.  The keyword passed to parametric_sfr is time, which that function
\* takes into **extras: its times stays None.
params_to_sfh(params, time, agebins) ==
    IF time.given
    THEN IF params.kind # "parametric"
         THEN [status |-> "KeyError", path |-> "parametric"]
         ELSE IF params.n >= 1
         THEN LET sfr == parametric_sfr(params.item, None)
              IN  IF sfr.status # "ok"
                  THEN [status |-> sfr.status, path |-> "parametric"]
                  ELSE [status |-> parametric_cmf(params.item, time).status,
                        path |-> "parametric"]
         ELSE [status |-> "ok", path |-> "parametric",
               lookback |-> Arr1([i \in 1..Len(time.value) |->
                                    Sub(MaxOf(time.value), time.value[i])]),
               sfhs |-> Arr1(<<>>),
               cmfs |-> Arr1(<<>>)]
    ELSE IF params.kind # "nonparametric"
         THEN [status |-> "KeyError", path |-> "nonparametric"]
         ELSE IF ~agebins.given
         THEN [status |-> "TypeError", path |-> "nonparametric"]
         ELSE LET ab == agebins.value
                  nsamples == Len(params.logmass)
                  sfhs == IF nsamples = 0 THEN Arr1(<<>>)
                          ELSE Arr2([m \in 1..nsamples |->
                                       ratios_to_sfrs(params.logmass[m],
                                                      params.logsfr_ratios[m], ab)],
                                    Len(ab))
                  cmfs == sfh_to_cmf(sfhs, ab)
              IN  IF cmfs.status # "ok"
                  THEN [status |-> cmfs.status, path |-> "nonparametric"]
                  ELSE [status |-> "ok", path |-> "nonparametric",
                        lookback |-> Arr2([i \in 1..Len(ab) |->
                                             <<Pow10(ab[i][1] - 9),
                                               Pow10(ab[i][2] - 9)>>], 2),
                        sfhs |-> sfhs,
                        cmfs |-> [type |-> "tuple", ages |-> cmfs.ages,
                                  cmfs |-> cmfs.cmfs]]

\* nonpar_recent_sfr with the covered fraction of a bin not capped at 1.
np_interp(x, xp, fp, left, right) ==
    LET n == Len(xp)
    IN  IF Lt(x, xp[1]) THEN left
        ELSE IF Lt(xp[n], x) THEN right
        ELSE IF x = xp[n] THEN fp[n]
        ELSE LET j == CHOOSE k \in 1..(n - 1) : Le(xp[k], x) /\ Lt(x, xp[k + 1])
                 slope == Div(Sub(fp[j + 1], fp[j]), Sub(xp[j + 1], xp[j]))
             IN  Add(Mul(slope, Sub(x, xp[j])), fp[j])

\* The values of s in non-decreasing order.
RECURSIVE Sorted(_)
Sorted(s) ==
    IF Len(s) <= 1 THEN s
    ELSE LET k == CHOOSE i \in 1..Len(s) : \A j \in 1..Len(s) : Le(s[i], s[j])
         IN  <<s[k]>> \o Sorted(SubSeq(s, 1, k - 1) \o SubSeq(s, k + 1, Len(s)))

\* np.percentile of one column for q in 0..100: linear interpolation
\* between the two order statistics around q/100 * (n - 1).
np_percentile(col, q) ==
    LET v == Sorted(col)
        n == Len(v)
        lo == (q * (n - 1)) \div 100
        hi == Min(lo + 1, n - 1)
        frac == Mk((q * (n - 1)) % 100, 100, 0)
    IN  Add(v[lo + 1], Mul(frac, Sub(v[hi + 1], v[lo + 1])))

RECURSIVE SumWeights(_, _, _, _)
SumWeights(col, weights, v, k) ==
    IF k = 0 THEN 0
    ELSE (IF Le(col[k], v) THEN weights[k] ELSE 0) + SumWeights(col, weights, v, k - 1)

\* The weighted quantile of one column at the fraction q: the least value
\* whose share of the weight, summed over the members at or below it, is at
\* least q.
WeightedQuantile(col, weights, q) ==
    LET n == Len(col)
        total == SumInts(weights, n)
        reaches(v) == Le(Mul(q, FromInt(total)),
                         FromInt(SumWeights(col, weights, v, n)))
    IN  CHOOSE v \in {col[i] : i \in 1..n} :
            /\ reaches(v)
            /\ \A u \in {col[i] : i \in 1..n} : reaches(u) => Le(v, u)

\* prospect.plotting.corner.quantile by its interface: samples of shape
\* [n_members, n_points], fractions q, one weight per member; the result has
\* shape [len(q), n_points].
quantile(samples, q, weights) ==
    IF Len(weights) # samples.shape[1] THEN [status |-> "ValueError"]
    ELSE [status |-> "ok",
          value |-> Arr2([k \in 1..Len(q) |->
                            [p \in 1..samples.shape[2] |->
                               WeightedQuantile([m \in 1..samples.shape[1] |->
                                                   samples.rows[m][p]],
                                                weights, q[k])]],
                         samples.shape[2])]

\* sfh_quantiles.  bins[m] are the bins <<low, high>> of member m in the
\* units of tvec and sfrs[m] its SFRs; q are percentiles.  The resampled
\* curves sf are kept beside the result, and so is the matrix handed to
\* quantile.
sfh_quantiles(tvec, bins, sfrs, weights, q) ==
    LET nsamples == Len(bins)
        nbin == Len(bins[1])
        \* bins.reshape(bins.shape[0], -1)
        tt == [m \in 1..nsamples |->
                 [j \in 1..(2 * nbin) |-> bins[m][(j + 1) \div 2][2 - (j % 2)]]]
        \* np.array([sfrs, sfrs]).transpose(1, 2, 0).reshape(bins.shape[0], -1)
        stacked == <<sfrs, sfrs>>
        moved == [m \in 1..nsamples |->
                    [i \in 1..nbin |-> [k \in 1..2 |-> stacked[k][m][i]]]]
        ss == [m \in 1..nsamples |->
                 [j \in 1..(2 * nbin) |-> moved[m][(j + 1) \div 2][2 - (j % 2)]]]
        sf == Arr2([m \in 1..nsamples |->
                      [j \in 1..Len(tvec) |->
                         np_interp(tvec[j], tt[m], ss[m], Zero, Zero)]],
                   Len(tvec))
        fractions == [k \in 1..Len(q) |-> Div(FromInt(q[k]), FromInt(100))]
        weighted == quantile(Transpose(sf), fractions, weights.value)
        plain == Arr2([k \in 1..Len(q) |->
                         [j \in 1..Len(tvec) |->
                            np_percentile([m \in 1..nsamples |-> sf.rows[m][j]],
                                          q[k])]],
                      Len(tvec))
    IN  IF weights.given
        THEN IF weighted.status # "ok"
             THEN [status |-> weighted.status, sf |-> sf, handed |-> Transpose(sf)]
             ELSE [status |-> "ok", qq |-> weighted.value, sf |-> sf,
                   handed |-> Transpose(sf)]
        ELSE [status |-> "ok", qq |-> plain, sf |-> sf]

nonpar_recent_sfr_uncapped(logmass, logsfr_ratios, agebins, sfr_period) ==
    LET nbin == Len(agebins)
        masses == [m \in 1..Len(logmass) |->
                     logsfr_ratios_to_masses(logmass[m], logsfr_ratios[m], agebins)]
        ages == [i \in 1..nbin |->
                   <<Pow10(agebins[i][1] - 9), Pow10(agebins[i][2] - 9)>>]
        ft == [i \in 1..nbin |->
                 LET f == Div(Sub(sfr_period, ages[i][1]),
                              Sub(ages[i][2], ages[i][1]))
                 IN  IF Lt(f, Zero) THEN Zero ELSE f]
        mformed == [m \in 1..Len(logmass) |->
                      SumSeq([i \in 1..nbin |-> Mul(ft[i], masses[m][i])])]
    IN  [m \in 1..Len(logmass) |-> Div(mformed[m], Mul(sfr_period, Pow10(9)))]

nonpar_recent_sfr(logmass, logsfr_ratios, agebins, sfr_period) ==
    LET nbin == Len(agebins)
        masses == [m \in 1..Len(logmass) |->
                     logsfr_ratios_to_masses(logmass[m], logsfr_ratios[m], agebins)]
        ages == [i \in 1..nbin |->
                   <<Pow10(agebins[i][1] - 9), Pow10(agebins[i][2] - 9)>>]
        ft == [i \in 1..nbin |->
                 Clip(Div(Sub(sfr_period, ages[i][1]), Sub(ages[i][2], ages[i][1])),
                      Zero, One)]
        mformed == [m \in 1..Len(logmass) |->
                      SumSeq([i \in 1..nbin |-> Mul(ft[i], masses[m][i])])]
    IN  [m \in 1..Len(logmass) |-> Div(mformed[m], Mul(sfr_period, Pow10(9)))]

\* nonpar_mwa dividing every member's sum by the first member's total mass.
nonpar_mwa_first_mass(logmass, logsfr_ratios, agebins) ==
    LET nbin == Len(agebins)
        sfrs == [m \in 1..Len(logmass) |->
                   ratios_to_sfrs(logmass[m], logsfr_ratios[m], agebins)]
        ages == [i \in 1..nbin |-> <<Pow10(agebins[i][1]), Pow10(agebins[i][2])>>]
        dtsq == [i \in 1..nbin |->
                   Div(Sub(Mul(ages[i][2], ages[i][2]), Mul(ages[i][1], ages[i][1])),
                       FromInt(2))]
        mwa == [m \in 1..Len(logmass) |->
                  Div(SumSeq([i \in 1..nbin |-> Mul(dtsq[i], sfrs[m][i])]),
                      Pow10(logmass[1]))]
    IN  [m \in 1..Len(logmass) |-> Div(mwa[m], Pow10(9))]

nonpar_mwa(logmass, logsfr_ratios, agebins) ==
    LET nbin == Len(agebins)
        sfrs == [m \in 1..Len(logmass) |->
                   ratios_to_sfrs(logmass[m], logsfr_ratios[m], agebins)]
        ages == [i \in 1..nbin |-> <<Pow10(agebins[i][1]), Pow10(agebins[i][2])>>]
        dtsq == [i \in 1..nbin |->
                   Div(Sub(Mul(ages[i][2], ages[i][2]), Mul(ages[i][1], ages[i][1])),
                       FromInt(2))]
        mwa == [m \in 1..Len(logmass) |->
                  Div(SumSeq([i \in 1..nbin |-> Mul(dtsq[i], sfrs[m][i])]),
                      Pow10(logmass[m]))]
    IN  [m \in 1..Len(logmass) |-> Div(mwa[m], Pow10(9))]

---------------------------------------------------------------------------
Init ==
    /\ pc = "idle"
    /\ op = "none"
    /\ args = [none |-> TRUE]
    /\ ret = [status |-> "none"]

\* The caller takes the result; the next call starts afresh.
Return ==
    /\ pc = "done"
    /\ pc' = "idle"
    /\ op' = "none"
    /\ args' = [none |-> TRUE]
    /\ ret' = [status |-> "none"]

\* A call of sfh_to_cmf on an ensemble of non-negative per-bin SFRs, given
\* as an array of one axis (one member) or of two.
CallSfhToCmf ==
    /\ pc = "idle"
    /\ \E agebins \in AgeBins(MaxLogAge, MaxBins) :
         \E rows \in Ensembles([1..Len(agebins) -> {FromInt(v) : v \in SfrValues}], 1) :
           \E sfrs \in {Arr2(rows, Len(agebins))}
                       \cup (IF Len(rows) = 1 THEN {Arr1(rows[1])} ELSE {}) :
             /\ args' = [sfrs |-> sfrs, agebins |-> agebins]
             /\ ret' = sfh_to_cmf(sfrs, agebins)
    /\ op' = "sfh_to_cmf"
    /\ pc' = "done"

\* A call of ratios_to_sfrs for one parameter set.
CallRatiosToSfrs ==
    /\ pc = "idle"
    /\ \E agebins \in AgeBins(MaxLogAge, MaxScalarBins) :
         \E logmass \in LogMasses :
           \E logsfr_ratios \in [1..(Len(agebins) - 1) -> LogSfrRatios] :
             /\ args' = [logmass |-> logmass, logsfr_ratios |-> logsfr_ratios,
                         agebins |-> agebins]
             /\ ret' = [status |-> "ok",
                        sfrs |-> ratios_to_sfrs(logmass, logsfr_ratios, agebins)]
    /\ op' = "ratios_to_sfrs"
    /\ pc' = "done"

\* A call of nonpar_recent_sfr on an ensemble.
CallNonparRecentSfr ==
    /\ pc = "idle"
    /\ \E agebins \in AgeBins(MaxLogAge, MaxBins) :
         \E ens \in Ensembles(Members(Len(agebins), RecentLogMasses,
                                       RecentLogSfrRatios), 1) :
           \E sfr_period \in SfrPeriods :
             LET logmass == [m \in 1..Len(ens) |-> ens[m].logmass]
                 ratios == [m \in 1..Len(ens) |-> ens[m].logsfr_ratios]
             IN  /\ args' = [logmass |-> logmass, logsfr_ratios |-> ratios,
                             agebins |-> agebins, sfr_period |-> sfr_period]
                 /\ ret' = [status |-> "ok",
                            sfr |-> nonpar_recent_sfr(logmass, ratios, agebins,
                                                      sfr_period)]
    /\ op' = "nonpar_recent_sfr"
    /\ pc' = "done"

\* A call of nonpar_mwa on an ensemble.
CallNonparMwa ==
    /\ pc = "idle"
    /\ \E agebins \in AgeBins(MaxMwaLogAge, MaxBins) :
         \E ens \in Ensembles(Members(Len(agebins), EnsembleLogMasses,
                                       LogSfrRatios), 1) :
           LET logmass == [m \in 1..Len(ens) |-> ens[m].logmass]
               ratios == [m \in 1..Len(ens) |-> ens[m].logsfr_ratios]
           IN  /\ args' = [logmass |-> logmass, logsfr_ratios |-> ratios,
                           agebins |-> agebins]
               /\ ret' = [status |-> "ok",
                          mwa |-> nonpar_mwa(logmass, ratios, agebins)]
    /\ op' = "nonpar_mwa"
    /\ pc' = "done"

\* A call of params_to_sfh with or without a time grid, with or without an
\* age-bin set, and the parameters of either model.
CallParamsToSfh ==
    /\ pc = "idle"
    /\ \E time \in {None} \cup {Some(t) : t \in TimeGrids} :
         \E agebins \in {None} \cup {Some(ab) : ab \in AgeBins(MaxLogAge, MaxBins)} :
           \E params \in ParametricParams \cup
                          (IF agebins.given
                           THEN NonparametricParams(Len(agebins.value))
                           ELSE UNION {NonparametricParams(n) : n \in 1..MaxBins}) :
             /\ args' = [params |-> params, time |-> time, agebins |-> agebins]
             /\ ret' = params_to_sfh(params, time, agebins)
    /\ op' = "params_to_sfh"
    /\ pc' = "done"

\* A call of parametric_cmf.
CallParametricCmf ==
    /\ pc = "idle"
    /\ \E item \in ItemKinds :
         \E times \in {None} \cup {Some(t) : t \in TimeGrids} :
           /\ args' = [item |-> item, times |-> times]
           /\ ret' = parametric_cmf(item, times)
    /\ op' = "parametric_cmf"
    /\ pc' = "done"

\* A call of sfh_quantiles.
CallSfhQuantiles ==
    /\ pc = "idle"
    /\ \E nbin \in 1..MaxBins :
         \E ens \in Ensembles(QuantileMembers(nbin), 1) :
           \E tvec \in TargetGrids :
             \E weights \in WeightChoices(Len(ens)) :
               \E q \in PercentileChoices :
                 LET bins == [m \in 1..Len(ens) |-> ens[m].bins]
                     sfrs == [m \in 1..Len(ens) |-> ens[m].sfrs]
                 IN  /\ args' = [tvec |-> tvec, bins |-> bins, sfrs |-> sfrs,
                                 weights |-> weights, q |-> q]
                     /\ ret' = sfh_quantiles(tvec, bins, sfrs, weights, q)
    /\ op' = "sfh_quantiles"
    /\ pc' = "done"

NextCmf == CallSfhToCmf \/ Return

NextQuantiles == CallSfhQuantiles \/ Return

SpecQuantiles == Init /\ [][NextQuantiles]_vars

NextDispatch == CallParamsToSfh \/ CallParametricCmf \/ Return

SpecDispatch == Init /\ [][NextDispatch]_vars

NextRatios == CallRatiosToSfrs \/ Return

SpecRatios == Init /\ [][NextRatios]_vars

NextRecent == CallNonparRecentSfr \/ Return

SpecRecent == Init /\ [][NextRecent]_vars

NextMwa == CallNonparMwa \/ Return

SpecMwa == Init /\ [][NextMwa]_vars

SpecCmf == Init /\ [][NextCmf]_vars

Next ==
    \/ CallParamsToSfh
    \/ CallSfhQuantiles
    \/ CallParametricCmf
    \/ CallRatiosToSfrs
    \/ CallNonparRecentSfr
    \/ CallNonparMwa
    \/ CallSfhToCmf
    \/ Return

Spec == Init /\ [][Next]_vars

---------------------------------------------------------------------------
(* Properties.                                                             *)

\* The mass a member forms in all bins: the sum of SFR times linear width.
TotalMass(sfr, agebins) ==
    SumSeq([i \in 1..Len(agebins) |-> Mul(sfr[i], BinWidths(agebins)[i])])

CmfCall == op = "sfh_to_cmf"

AllMembersPositive ==
    \A m \in 1..Len(args.sfrs.rows) :
        Lt(Zero, TotalMass(args.sfrs.rows[m], args.agebins))

SomeMemberMassless ==
    \E m \in 1..Len(args.sfrs.rows) :
        TotalMass(args.sfrs.rows[m], args.agebins) = Zero

\* The age grid has one point more than there are bins, starts at the lower
\* edge of the youngest bin and ends at the upper edge of the oldest, in Gyr,
\* and every CMF row pairs with it point by point.
CmfPairsWithAgeGrid ==
    LET n == Len(args.agebins)
    IN  /\ Len(ret.ages) = n + 1
        /\ ret.ages[1] = Pow10(args.agebins[1][1] - 9)
        /\ ret.ages[n + 1] = Pow10(args.agebins[n][2] - 9)
        /\ \A i \in 1..n : Lt(ret.ages[i], ret.ages[i + 1])
        /\ \A m \in 1..Len(ret.cmfs.rows) : Len(ret.cmfs.rows[m]) = n + 1

C10_MasslessMemberFailsBatch ==
    (CmfCall /\ SomeMemberMassless) => ret.status # "ok"

\* What sfh_to_cmf does then: it returns, the massless member's CMF is NaN
\* at every edge but the oldest, the other members' CMFs are finite.
C10_NaNRowsReturned ==
    (CmfCall /\ SomeMemberMassless) =>
        /\ ret.status = "ok"
        /\ \A m \in 1..Len(args.sfrs.rows) :
             LET row == ret.cmfs.rows[m]
                 massless == TotalMass(args.sfrs.rows[m], args.agebins) = Zero
             IN  \A i \in 1..(Len(row) - 1) : (row[i] = NaN) <=> massless

---------------------------------------------------------------------------
RecentCall == op = "nonpar_recent_sfr"

\* The masses the mass transform gives member m of the call's ensemble.
MemberMasses(m) ==
    logsfr_ratios_to_masses(args.logmass[m], args.logsfr_ratios[m], args.agebins)

\* sfr_period is exactly the upper edge of bin k, in Gyr.
PeriodIsUpperEdge(k) == args.sfr_period = Pow10(args.agebins[k][2] - 9)

\* C5 as claimed: for a contiguous bin set and sfr_period exactly the upper
\* edge of bin k, nonpar_recent_sfr returns for each member the mass of bin k
\* alone divided by sfr_period * 1e9 years.
C5_BinAlone ==
    (RecentCall /\ Contiguous(args.agebins)) =>
        \A k \in 1..Len(args.agebins) :
            PeriodIsUpperEdge(k) =>
                \A m \in 1..Len(args.logmass) :
                    ret.sfr[m] = Div(MemberMasses(m)[k],
                                     Mul(args.sfr_period, Pow10(9)))

\* C5 as amended: for a contiguous bin set and sfr_period exactly the upper
\* edge of bin k, nonpar_recent_sfr returns for each member the mass of bin k
\* and of every younger bin, each in full, divided by sfr_period * 1e9 years;
\* the next older bin and every bin older than it contribute no mass.
C5_BinAndYounger ==
    (RecentCall /\ Contiguous(args.agebins)) =>
        \A k \in 1..Len(args.agebins) :
            PeriodIsUpperEdge(k) =>
                \A m \in 1..Len(args.logmass) :
                    ret.sfr[m] = Div(SumSeq(SubSeq(MemberMasses(m), 1, k)),
                                     Mul(args.sfr_period, Pow10(9)))

\* nonpar_recent_sfr has returned for two members over two contiguous bins
\* with sfr_period the upper edge of the older bin.
C5_Witness ==
    /\ RecentCall
    /\ Len(args.agebins) = 2
    /\ Contiguous(args.agebins)
    /\ PeriodIsUpperEdge(2)
    /\ Len(ret.sfr) = 2

\* The other case of C5: sfr_period is the upper edge of the younger of two
\* contiguous bins, and the older bin has mass.
C5_WitnessOlderBin ==
    /\ RecentCall
    /\ Len(args.agebins) = 2
    /\ Contiguous(args.agebins)
    /\ PeriodIsUpperEdge(1)
    /\ Lt(Zero, MemberMasses(1)[2])

---------------------------------------------------------------------------
RatiosCall == op = "ratios_to_sfrs"

\* C6: given a mass transform whose masses sum to 10^logmass, the SFRs that
\* ratios_to_sfrs returns, each times the linear width of its bin, sum to
\* 10^logmass; and with all log-SFR-ratios zero the SFR is the same in
\* every bin.
C6_MassAndEqualSfr ==
    RatiosCall =>
        LET n == Len(args.agebins)
            masses == logsfr_ratios_to_masses(args.logmass, args.logsfr_ratios,
                                              args.agebins)
        IN  /\ SumSeq(masses) = Pow10(args.logmass) =>
                  /\ Len(ret.sfrs) = n
                  /\ SumSeq([i \in 1..n |->
                        Mul(ret.sfrs[i],
                            Sub(Pow10(args.agebins[i][2]),
                                Pow10(args.agebins[i][1])))])
                       = Pow10(args.logmass)
            /\ (\A i \in 1..(n - 1) : args.logsfr_ratios[i] = 0) =>
                  \A i \in 1..n : ret.sfrs[i] = ret.sfrs[1]

\* ratios_to_sfrs has returned for two bins of different width with the one
\* log-SFR-ratio zero.
C6_Witness ==
    /\ RatiosCall
    /\ Len(args.agebins) = 2
    /\ args.logsfr_ratios = <<0>>
    /\ SumSeq(logsfr_ratios_to_masses(args.logmass, args.logsfr_ratios,
                                      args.agebins)) = Pow10(args.logmass)
    /\ Lt(Zero, ret.sfrs[1])

---------------------------------------------------------------------------
MwaCall == op = "nonpar_mwa"

\* The mid-time of bin i in linear years.
MidTime(agebins, i) ==
    Div(Add(Pow10(agebins[i][1]), Pow10(agebins[i][2])), FromInt(2))

\* The mean of the bin mid-times weighted with the masses, over the total
\* mass 10^logmass, in Gyr.
MeanMidTime(masses, logmass) ==
    LET n == Len(args.agebins)
    IN  Div(Div(SumSeq([i \in 1..n |-> Mul(MidTime(args.agebins, i), masses[i])]),
                Pow10(logmass)),
            Pow10(9))

\* C9: for every member nonpar_mwa returns the mass-weighted mean of the bin
\* mid-times in Gyr; with non-negative bin masses that sum to 10^logmass it
\* lies between the youngest bin's lower edge and the oldest bin's upper
\* edge; and it is what nonpar_mwa returns for that member alone.
C9_MassWeightedMidTime ==
    MwaCall =>
        LET n == Len(args.agebins)
        IN  \A m \in 1..Len(args.logmass) :
              LET masses == MemberMasses(m)
              IN  /\ ret.mwa[m] = MeanMidTime(masses, args.logmass[m])
                  /\ ( /\ \A i \in 1..n : Le(Zero, masses[i])
                       /\ SumSeq(masses) = Pow10(args.logmass[m]) )
                     => /\ Le(Pow10(args.agebins[1][1] - 9), ret.mwa[m])
                        /\ Le(ret.mwa[m], Pow10(args.agebins[n][2] - 9))
                  /\ ret.mwa[m] = nonpar_mwa(<<args.logmass[m]>>,
                                             <<args.logsfr_ratios[m]>>,
                                             args.agebins)[1]

\* nonpar_mwa has returned for two members of different logmass and
\* different ratios over two bins.
C9_Witness ==
    /\ MwaCall
    /\ Len(args.agebins) = 2
    /\ Len(args.logmass) = 2
    /\ args.logmass[1] # args.logmass[2]
    /\ args.logsfr_ratios[1] # args.logsfr_ratios[2]
    /\ ret.mwa[1] # ret.mwa[2]

---------------------------------------------------------------------------
DispatchCall == op = "params_to_sfh"

\* C2 as claimed: a call of params_to_sfh with both a time grid and an
\* age-bin set, and a call with neither, is refused as a caller-input error:
\* it enters neither the parametric nor the non-parametric path and it
\* returns no result.
C2_ExactlyOneInputMode ==
    (DispatchCall /\ (args.time.given <=> args.agebins.given)) =>
        /\ ret.status # "ok"
        /\ ret.path \notin {"parametric", "nonparametric"}

\* What params_to_sfh does: a time grid selects the parametric path whether
\* or not there is an age-bin set, and no time grid the non-parametric path.
C2_TimeGridDecides ==
    DispatchCall =>
        ret.path = IF args.time.given THEN "parametric" ELSE "nonparametric"

\* C3 as claimed: in every triple that params_to_sfh returns the third
\* element is one array of CMF values of the shape of the SFR ensemble.
C3_CmfShapeOfSfr ==
    (DispatchCall /\ ret.status = "ok") =>
        /\ ret.cmfs.type = "ndarray"
        /\ ret.cmfs.shape = ret.sfhs.shape

\* What params_to_sfh returns on the non-parametric path: the pair that
\* sfh_to_cmf returned, age grid and CMFs, the CMFs with one point more than
\* there are bins and the axis of a single member dropped.
C3_CmfPairReturned ==
    (DispatchCall /\ ret.status = "ok" /\ ret.path = "nonparametric") =>
        LET nsamples == ret.sfhs.shape[1]
            nbin == ret.sfhs.shape[2]
        IN  /\ ret.cmfs.type = "tuple"
            /\ Len(ret.cmfs.ages) = nbin + 1
            /\ ret.cmfs.cmfs.shape =
                   IF nsamples = 1 THEN <<nbin + 1>> ELSE <<nsamples, nbin + 1>>

\* C4 as claimed: parametric_cmf always ends in NotImplementedError, and so
\* does every call of params_to_sfh with a time grid and at least one sample
\* of tau, tage and mass.
C4_NotImplemented ==
    /\ op = "parametric_cmf" => ret.status = "NotImplementedError"
    /\ (DispatchCall /\ args.time.given /\ args.params.kind = "parametric"
          /\ args.params.n >= 1)
         => ret.status = "NotImplementedError"

\* What holds of the parametric path: a call with at least one sample never
\* returns; it ends in NotImplementedError when the samples are arrays of
\* shape (1,) and in parametric_sfr's TypeError when they are scalars.
C4_ParametricNeverReturns ==
    /\ op = "parametric_cmf" => ret.status = "NotImplementedError"
    /\ (DispatchCall /\ args.time.given /\ args.params.kind = "parametric"
          /\ args.params.n >= 1)
         => ret.status = IF args.params.item = "scalar" THEN "TypeError"
                         ELSE "NotImplementedError"

---------------------------------------------------------------------------
QuantilesCall == op = "sfh_quantiles"

\* C7 as claimed: sfh_quantiles returns an array of shape [n_quantiles,
\* n_grid_points] without and with weights, and with weights the matrix it
\* hands to quantile is the [n_members, n_points] matrix of resampled curves.
C7_QuantileShape ==
    QuantilesCall =>
        /\ ret.status = "ok"
        /\ ret.qq.shape = <<Len(args.q), Len(args.tvec)>>
        /\ args.weights.given => ret.handed = ret.sf

\* What sfh_quantiles does: without weights the result has shape
\* [n_quantiles, n_grid_points]; with weights quantile is handed the
\* transpose, [n_points, n_members], which does not match the one weight per
\* member unless there are as many grid points as members.
C7_TransposeHanded ==
    QuantilesCall =>
        IF args.weights.given
        THEN /\ ret.handed = Transpose(ret.sf)
             /\ ret.status = "ok" <=> Len(args.tvec) = Len(args.bins)
             /\ ret.status = "ok" => ret.qq.shape = <<Len(args.q), Len(args.bins)>>
        ELSE /\ ret.status = "ok"
             /\ ret.qq.shape = <<Len(args.q), Len(args.tvec)>>

\* Grid point j lies strictly inside bin i of member m.
InsideBin(m, i, j) ==
    /\ Lt(args.bins[m][i][1], args.tvec[j])
    /\ Lt(args.tvec[j], args.bins[m][i][2])

\* Grid point j lies below the first or above the last bin edge of member m.
OutsideSpan(m, j) ==
    \/ Lt(args.tvec[j], args.bins[m][1][1])
    \/ Lt(args.bins[m][Len(args.bins[m])][2], args.tvec[j])

\* The curve resampled for each member is the member's own step function.
ResampledOwnSteps ==
    \A m \in 1..Len(args.bins) :
        \A j \in 1..Len(args.tvec) :
            /\ \A i \in 1..Len(args.bins[m]) :
                   InsideBin(m, i, j) => ret.sf.rows[m][j] = args.sfrs[m][i]
            /\ OutsideSpan(m, j) => ret.sf.rows[m][j] = Zero

\* C8 as claimed: the curve resampled for each member is the member's own
\* step function, the bin's SFR strictly inside a bin and 0 outside the
\* member's span; and at a grid point outside the span of every member all
\* returned quantiles are 0.
C8_StepsAndZeroQuantiles ==
    QuantilesCall =>
        /\ ResampledOwnSteps
        /\ ret.status = "ok" =>
             \A j \in 1..Len(args.tvec) :
                 (\A m \in 1..Len(args.bins) : OutsideSpan(m, j)) =>
                     \A k \in 1..Len(args.q) : ret.qq.rows[k][j] = Zero

\* What holds of sfh_quantiles: the resampled curves are the members' own
\* step functions in every call, and the quantiles at a grid point outside
\* every span are 0 in the call without weights.
C8_StepsAndPlainQuantiles ==
    QuantilesCall =>
        /\ ResampledOwnSteps
        /\ ~args.weights.given =>
             \A j \in 1..Len(args.tvec) :
                 (\A m \in 1..Len(args.bins) : OutsideSpan(m, j)) =>
                     \A k \in 1..Len(args.q) : ret.qq.rows[k][j] = Zero

=============================================================================
